---- MODULE Spec2Model ----
(***************************************************************************)
(* A model of BPlusTreeMap (src/src/bplus_tree_map.rs) together with its   *)
(* split / merge policies (src/src/node_operations.rs) and balancers       *)
(* (src/src/node_balancer.rs).                                             *)
(*                                                                         *)
(* A node is a record [kind, keys, values, children]; a Leaf has no        *)
(* children and a Branch has no values.  Option::None is NoneNode for a    *)
(* node and NoneVal (0) for a value.  Vec indices are 0-based in the       *)
(* source, so element idx of a Vec s is s[idx + 1] here.  A Rust panic is  *)
(* the field panic = TRUE of an operation's result.                        *)
(***************************************************************************)
EXTENDS Integers, Sequences, FiniteSets, TLC

\* ---------------------------------------------------------------- bounds
\* keys are 1..MaxKey, values 1..MaxVal, branching factors offered to the
\* constructors 0..MaxB; a behaviour of Spec makes at most MaxOps calls
MaxKey == 5
MaxVal == 2
MaxB == 3
MaxOps == 9
\* SpecDeep: longer call sequences over fewer values
MaxValDeep == 1
MaxOpsDeep == 13
\* SpecInsertOnly: insert calls only
MaxOpsInsertOnly == 9
\* SpecCtor: both constructors, leaves of at most MaxLeafLen keys, few calls
MaxLeafLen == 2
MaxOpsCtor == 1
\* SpecMut: insert, remove and writes through iter_mut() / values_mut()
MaxOpsMut == 9
\* SpecEntry: insert, remove and entry(k).or_insert(d)
MaxOpsEntry == 9

\* SpecClone: insert and remove on a map and on its clone()
MaxOpsClone == 9
MaxOpsAfterClone == 1

\* SpecNodeOps: calls of the node operations with a branching factor of
\* 2..MaxBUnit
MaxBUnit == 4

\* SpecWide: branching factors up to MaxBWide, for which min_keys = 2 and two
\* sibling leaves can fall below it
MaxBWide == 4
MaxOpsWide == 8

Keys == 1..MaxKey
Vals == 1..MaxVal
DeepVals == 1..MaxValDeep
NoneVal == 0

\* root, size, branching_factor: the fields of BPlusTreeMap (the two balancers
\* are functions of branching_factor).  constructed: a constructor has returned
\* a map.  fault: "none", "config" (a constructor panicked) or "panic" (insert or
\* remove panicked).  hist, last, nops: the history of calls, kept to state the
\* properties: hist[k] is the value of the most recent insert of k, NoneVal when
\* k was never inserted or was removed since; last is the most recent call
\* (args: the leaves and the separator handed to with_branch_root).  other: the
\* map that clone() returned (made = FALSE before clone()), with its own root,
\* size and fault; at is the number of calls made before clone().
VARIABLES root, size, branching_factor, constructed, fault, hist, last, nops,
          other

vars == <<root, size, branching_factor, constructed, fault, hist, last, nops,
          other>>

\* ----------------------------------------------------------- node model
NoneNode == [kind |-> "None", keys |-> <<>>, values |-> <<>>, children |-> <<>>]

Leaf(ks, vs) == [kind |-> "Leaf", keys |-> ks, values |-> vs, children |-> <<>>]

Branch(ks, cs) == [kind |-> "Branch", keys |-> ks, values |-> <<>>, children |-> cs]

create_empty_leaf == Leaf(<<>>, <<>>)

\* ----------------------------------------------------------- Vec helpers
\* Vec::insert(idx, x), idx <= len
VecInsert(s, idx, x) == SubSeq(s, 1, idx) \o <<x>> \o SubSeq(s, idx + 1, Len(s))

\* Vec::remove(idx), idx < len
VecRemove(s, idx) == SubSeq(s, 1, idx) \o SubSeq(s, idx + 2, Len(s))

\* s[from..] and s[..to]
VecFrom(s, from) == SubSeq(s, from + 1, Len(s))

VecTo(s, to) == SubSeq(s, 1, to)

\* slice::binary_search as the standard library computes it: halve the
\* window [base, base + size) until one element is left, then compare it.
\* On a strictly ascending slice this is Ok(idx) of the match or Err(idx) of
\* the insertion point.
binary_search_base(ks, key) ==
    LET \* loop[i]: (base, size) after i iterations of "while size > 1"
        loop[i \in 0..Len(ks)] ==
            IF i = 0 THEN [base |-> 0, size |-> Len(ks)]
            ELSE IF loop[i - 1].size > 1
            THEN [base |-> IF ks[loop[i - 1].base + (loop[i - 1].size \div 2) + 1] > key
                           THEN loop[i - 1].base
                           ELSE loop[i - 1].base + (loop[i - 1].size \div 2),
                  size |-> loop[i - 1].size - (loop[i - 1].size \div 2)]
            ELSE loop[i - 1]
    IN  loop[Len(ks)].base

binary_search_result(ks, key, base) ==
    IF ks[base + 1] = key THEN [ok |-> TRUE, idx |-> base]
    ELSE [ok |-> FALSE, idx |-> base + (IF ks[base + 1] < key THEN 1 ELSE 0)]

binary_search(ks, key) ==
    IF Len(ks) = 0 THEN [ok |-> FALSE, idx |-> 0]
    ELSE binary_search_result(ks, key, binary_search_base(ks, key))

\* the separator scan of remove_recursive and find_leaf_for_key: the index
\* of the first separator greater than key, or len
route_idx(ks, key) ==
    IF \E i \in 1..Len(ks) : key < ks[i]
    THEN (CHOOSE i \in 1..Len(ks) : key < ks[i] /\ \A j \in 1..(i - 1) : ~(key < ks[j])) - 1
    ELSE Len(ks)

\* the linear scan of a leaf for an exact match: first matching index, or -1
leaf_find(ks, key) ==
    IF \E i \in 1..Len(ks) : ks[i] = key
    THEN (CHOOSE i \in 1..Len(ks) : ks[i] = key /\ \A j \in 1..(i - 1) : ks[j] # key) - 1
    ELSE -1

\* ------------------------------------------------------------- Splitter
\* LeafNodeSplitter::needs_split splitting a leaf that is exactly full
LeafNodeSplitter_needs_split_when_full(node, bf) == Len(node.keys) >= bf

LeafNodeSplitter_needs_split(node, bf) == Len(node.keys) > bf

BranchNodeSplitter_needs_split(node, bf) == Len(node.keys) > bf

NoChange(node) == [tag |-> "NoChange", node |-> node, left |-> NoneNode,
                   right |-> NoneNode, separator |-> 0, panic |-> FALSE]

SplitRes(l, r, sep) == [tag |-> "Split", node |-> NoneNode, left |-> l,
                        right |-> r, separator |-> sep, panic |-> FALSE]

Merged(node) == [tag |-> "Merged", node |-> node, left |-> NoneNode,
                 right |-> NoneNode, separator |-> 0, panic |-> FALSE]

Rebalanced(l, r, sep) == [tag |-> "Rebalanced", node |-> NoneNode, left |-> l,
                          right |-> r, separator |-> sep, panic |-> FALSE]

Panicked == [tag |-> "Panic", node |-> NoneNode, left |-> NoneNode,
             right |-> NoneNode, separator |-> 0, panic |-> TRUE]

\* LeafNodeSplitter::split with the right half cut one entry late: the entry at
\* split_idx reaches neither half
LeafNodeSplitter_split_drops_entry(node, bf) ==
    IF ~LeafNodeSplitter_needs_split(node, bf) THEN NoChange(node)
    ELSE LET split_idx == Len(node.keys) \div 2
             split_key == node.keys[split_idx + 1]
         IN  SplitRes(Leaf(VecTo(node.keys, split_idx), VecTo(node.values, split_idx)),
                      Leaf(VecFrom(node.keys, split_idx + 1),
                           VecFrom(node.values, split_idx + 1)),
                      split_key)

\* LeafNodeSplitter::split cutting at the upper middle, split_idx = (len + 1) / 2
LeafNodeSplitter_split_upper_middle(node, bf) ==
    IF ~LeafNodeSplitter_needs_split(node, bf) THEN NoChange(node)
    ELSE LET split_idx == (Len(node.keys) + 1) \div 2
             split_key == node.keys[split_idx + 1]
         IN  SplitRes(Leaf(VecTo(node.keys, split_idx), VecTo(node.values, split_idx)),
                      Leaf(VecFrom(node.keys, split_idx), VecFrom(node.values, split_idx)),
                      split_key)

LeafNodeSplitter_split(node, bf) ==
    IF ~LeafNodeSplitter_needs_split(node, bf) THEN NoChange(node)
    ELSE LET split_idx == Len(node.keys) \div 2
             split_key == node.keys[split_idx + 1]
         IN  SplitRes(Leaf(VecTo(node.keys, split_idx), VecTo(node.values, split_idx)),
                      Leaf(VecFrom(node.keys, split_idx), VecFrom(node.values, split_idx)),
                      split_key)

\* BranchNodeSplitter::split copying the separator up: it stays the first key
\* of the right half
BranchNodeSplitter_split_copies_separator(node, bf) ==
    IF ~BranchNodeSplitter_needs_split(node, bf) THEN NoChange(node)
    ELSE LET split_idx == Len(node.keys) \div 2
             split_key == node.keys[split_idx + 1]
         IN  IF split_idx + 1 > Len(node.children)
             THEN Panicked
             ELSE SplitRes(Branch(VecTo(node.keys, split_idx),
                                  VecTo(node.children, split_idx + 1)),
                           Branch(VecFrom(node.keys, split_idx),
                                  VecFrom(node.children, split_idx + 1)),
                           split_key)

BranchNodeSplitter_split(node, bf) ==
    IF ~BranchNodeSplitter_needs_split(node, bf) THEN NoChange(node)
    ELSE LET split_idx == Len(node.keys) \div 2
             split_key == node.keys[split_idx + 1]
         IN  IF split_idx + 1 > Len(node.children)
             THEN Panicked  \* drain(split_idx + 1..) past the end of children
             ELSE SplitRes(Branch(VecTo(node.keys, split_idx),
                                  VecTo(node.children, split_idx + 1)),
                           Branch(VecFrom(node.keys, split_idx + 1),
                                  VecFrom(node.children, split_idx + 1)),
                           split_key)

\* InsertionBalancer::balance_node
balance_node(node, bf) ==
    IF node.kind = "Leaf"
    THEN IF ~LeafNodeSplitter_needs_split(node, bf) THEN NoChange(node)
         ELSE LeafNodeSplitter_split(node, bf)
    ELSE IF ~BranchNodeSplitter_needs_split(node, bf) THEN NoChange(node)
         ELSE BranchNodeSplitter_split(node, bf)

\* --------------------------------------------------------------- Merger
NoMerge(l, r, sep) == [tag |-> "NoMerge", node |-> NoneNode, left |-> l,
                       right |-> r, separator |-> sep, panic |-> FALSE]

\* LeafNodeMerger::new / BranchNodeMerger::new / RemovalBalancer::new
min_keys_of(bf) == bf \div 2

Min(a, b) == IF a < b THEN a ELSE b

LeafNodeMerger_needs_merge(left, right, min_keys) ==
    \/ Len(left.keys) = 2 /\ Len(right.keys) = 2
    \/ Len(left.keys) < min_keys
    \/ Len(right.keys) < min_keys

\* the end of the leaf redistribution: the separator is right.keys[0]
leaf_rebalanced(l, r) ==
    IF Len(r.keys) = 0 THEN Panicked ELSE Rebalanced(l, r, r.keys[1])

\* "Move keys from right to left"
leaf_move_right_to_left(left, right, move_count) ==
    leaf_rebalanced(Leaf(left.keys \o VecTo(right.keys, move_count),
                         left.values \o VecTo(right.values, move_count)),
                    Leaf(VecFrom(right.keys, move_count),
                         VecFrom(right.values, move_count)))

\* "Move keys from left to right"
leaf_move_left_to_right(left, right, start_idx) ==
    leaf_rebalanced(Leaf(VecTo(left.keys, start_idx), VecTo(left.values, start_idx)),
                    Leaf(VecFrom(left.keys, start_idx) \o right.keys,
                         VecFrom(left.values, start_idx) \o right.values))

leaf_redistribute(left, right, target_left_size) ==
    IF Len(left.keys) < target_left_size
    THEN leaf_move_right_to_left(left, right, target_left_size - Len(left.keys))
    ELSE leaf_move_left_to_right(left, right,
             Len(left.keys) - (Len(left.keys) - target_left_size))

leaf_concat(left, right) ==
    Merged(Leaf(left.keys \o right.keys, left.values \o right.values))

leaf_merge_or_redistribute(left, right, total_keys, min_keys) ==
    IF total_keys >= 2 * min_keys
    THEN leaf_redistribute(left, right, total_keys \div 2)
    ELSE leaf_concat(left, right)

LeafNodeMerger_merge(left, right, sep, min_keys) ==
    IF ~LeafNodeMerger_needs_merge(left, right, min_keys)
    THEN IF Len(right.keys) = 0 THEN Panicked  \* right.keys[0]
         ELSE NoMerge(left, right, right.keys[1])
    ELSE IF Len(left.keys) = 2 /\ Len(right.keys) = 2
    THEN leaf_concat(left, right)
    ELSE leaf_merge_or_redistribute(left, right, Len(left.keys) + Len(right.keys), min_keys)

BranchNodeMerger_needs_merge(left, right, min_keys) ==
    Len(left.keys) < min_keys \/ Len(right.keys) < min_keys

\* "Move keys from right to left through the separator": lkeys1 is left.keys
\* with the separator pushed, moved the number of children that change side
\* (one per iteration of 0..=move_count, while right has any)
branch_move_right_to_left(left, right, lkeys1, move_count, moved) ==
    IF move_count > Len(right.keys)
    THEN Panicked  \* right.keys[0..move_count]
    ELSE IF Len(right.keys) - move_count = 0
    THEN Panicked  \* "Right node has no keys after rebalancing"
    ELSE Rebalanced(Branch(lkeys1 \o VecTo(right.keys, move_count),
                           left.children \o VecTo(right.children, moved)),
                    Branch(VecFrom(right.keys, move_count + 1),
                           VecFrom(right.children, moved)),
                    right.keys[move_count + 1])

\* the move from left to right leaving every child where it was
branch_move_left_to_right_keys_only(left, right, sep, start_idx, cut, upto) ==
    IF start_idx = 0
    THEN Panicked
    ELSE Rebalanced(Branch(VecTo(left.keys, start_idx - 1), left.children),
                    Branch(VecFrom(left.keys, start_idx) \o <<sep>> \o right.keys,
                           right.children),
                    left.keys[start_idx])

\* "Move keys from left to right through the separator": the children
\* start_idx ..= start_idx + move_count that exist change side, cut and upto
\* delimit them
branch_move_left_to_right(left, right, sep, start_idx, cut, upto) ==
    IF start_idx = 0
    THEN Panicked  \* left.keys.pop().unwrap()
    ELSE Rebalanced(Branch(VecTo(left.keys, start_idx - 1),
                           VecTo(left.children, cut) \o VecFrom(left.children, upto)),
                    Branch(VecFrom(left.keys, start_idx) \o <<sep>> \o right.keys,
                           SubSeq(left.children, cut + 1, upto) \o right.children),
                    left.keys[start_idx])

branch_redistribute(left, right, sep, target_left_size) ==
    IF Len(left.keys) < target_left_size
    THEN branch_move_right_to_left(left, right, Append(left.keys, sep),
             target_left_size - (Len(left.keys) + 1),
             Min(target_left_size - (Len(left.keys) + 1) + 1, Len(right.children)))
    ELSE branch_move_left_to_right(left, right, sep, target_left_size,
             Min(target_left_size, Len(left.children)),
             Min(Len(left.keys) + 1, Len(left.children)))

branch_merge_or_redistribute(left, right, sep, total_keys, min_keys) ==
    IF total_keys >= 2 * min_keys
    THEN branch_redistribute(left, right, sep, total_keys \div 2)
    ELSE Merged(Branch(Append(left.keys, sep) \o right.keys,
                       left.children \o right.children))

BranchNodeMerger_merge(left, right, sep, min_keys) ==
    IF ~BranchNodeMerger_needs_merge(left, right, min_keys)
    THEN NoMerge(left, right, sep)
    ELSE branch_merge_or_redistribute(left, right, sep,
             Len(left.keys) + Len(right.keys) + 1, min_keys)

\* MergeResult to BalanceResult
merge_to_balance(m) ==
    IF m.tag = "NoMerge" THEN Rebalanced(m.left, m.right, m.separator) ELSE m

\* RemovalBalancer::balance_nodes handing every same-kind pair to the merger
balance_nodes_always_merging(left, right, sep, min_keys) ==
    IF left.kind = "Leaf" /\ right.kind = "Leaf"
    THEN merge_to_balance(
             LeafNodeMerger_merge(left, right, sep, min_keys_of(min_keys * 2)))
    ELSE IF left.kind = "Branch" /\ right.kind = "Branch"
    THEN merge_to_balance(
             BranchNodeMerger_merge(left, right, sep, min_keys_of(min_keys * 2)))
    ELSE Rebalanced(left, right, sep)

\* RemovalBalancer::balance_nodes; min_keys is the balancer's field, and the
\* mergers are built with branching factor min_keys * 2
balance_nodes(left, right, sep, min_keys) ==
    IF left.kind = "Leaf" /\ right.kind = "Leaf"
    THEN IF ~LeafNodeMerger_needs_merge(left, right, min_keys_of(min_keys * 2))
         THEN Rebalanced(left, right, sep)
         ELSE merge_to_balance(
                  LeafNodeMerger_merge(left, right, sep, min_keys_of(min_keys * 2)))
    ELSE IF left.kind = "Branch" /\ right.kind = "Branch"
    THEN IF ~BranchNodeMerger_needs_merge(left, right, min_keys_of(min_keys * 2))
         THEN Rebalanced(left, right, sep)
         ELSE merge_to_balance(
                  BranchNodeMerger_merge(left, right, sep, min_keys_of(min_keys * 2)))
    ELSE Rebalanced(left, right, sep)

\* ---------------------------------------------------------------- insert
InsRes(node, old) == [node |-> node, old |-> old, panic |-> FALSE]

InsPanic == [node |-> NoneNode, old |-> NoneVal, panic |-> TRUE]

\* the match on balance_node's result: a split node becomes a new branch of
\* the separator and the two halves
insert_balanced(b, old) ==
    IF b.tag = "Split" THEN InsRes(Branch(<<b.separator>>, <<b.left, b.right>>), old)
    ELSE IF b.tag = "NoChange" THEN InsRes(b.node, old)
    ELSE InsPanic  \* a panicking split, or "Unexpected balance result for insertion"

\* the Leaf arm, bs the result of leaf.keys.binary_search(&key)
insert_leaf(leaf, key, value, bf, bs) ==
    IF bs.ok
    THEN InsRes(Leaf(leaf.keys, [leaf.values EXCEPT ![bs.idx + 1] = value]),
                leaf.values[bs.idx + 1])
    ELSE insert_balanced(balance_node(Leaf(VecInsert(leaf.keys, bs.idx, key),
                                           VecInsert(leaf.values, bs.idx, value)), bf),
                         NoneVal)

\* "Check if the child was split": a child that is now a branch of one key and
\* two children is taken for a fresh split and spliced into this branch
insert_put_back(keys, children1, idx, new_child) ==
    IF new_child.kind = "Branch" /\ Len(new_child.keys) = 1 /\ Len(new_child.children) = 2
    THEN Branch(VecInsert(keys, idx, new_child.keys[1]),
                VecInsert([children1 EXCEPT ![idx + 1] = new_child.children[1]],
                          idx + 1, new_child.children[2]))
    ELSE Branch(keys, [children1 EXCEPT ![idx + 1] = new_child])

\* the Branch arm after the recursive call returned r
insert_branch_return(keys, children1, idx, r, bf) ==
    IF r.panic THEN InsPanic
    ELSE insert_balanced(balance_node(insert_put_back(keys, children1, idx, r.node), bf),
                         r.old)

RECURSIVE insert_recursive(_, _, _, _)
\* the Branch arm, children1 the children after the push of an empty leaf
insert_branch_descend(keys, children1, idx, key, value, bf) ==
    IF idx >= Len(children1) THEN InsPanic  \* branch.children[idx]
    ELSE insert_branch_return(keys, children1, idx,
             insert_recursive(children1[idx + 1], key, value, bf), bf)

\* the Branch arm, bs the result of branch.keys.binary_search(&key)
insert_branch(branch, key, value, bf, idx) ==
    insert_branch_descend(branch.keys,
        IF idx >= Len(branch.children)
        THEN Append(branch.children, create_empty_leaf)
        ELSE branch.children,
        idx, key, value, bf)

branch_child_idx(bs) == IF bs.ok THEN bs.idx + 1 ELSE bs.idx

insert_recursive(node, key, value, bf) ==
    IF node.kind = "Leaf"
    THEN insert_leaf(node, key, value, bf, binary_search(node.keys, key))
    ELSE insert_branch(node, key, value, bf,
                       branch_child_idx(binary_search(node.keys, key)))

\* the Some(root) arm of insert, r the result of insert_recursive: on a panic
\* the root has been taken and size is untouched
insert_return(sz, r) ==
    IF r.panic
    THEN [root |-> NoneNode, size |-> sz, ret |-> NoneVal, panic |-> TRUE]
    ELSE [root |-> r.node, size |-> IF r.old = NoneVal THEN sz + 1 ELSE sz,
          ret |-> r.old, panic |-> FALSE]

\* BPlusTreeMap::insert on (root, size): the new root, the new size and the
\* returned Option
insert(rt, sz, key, value, bf) ==
    IF rt.kind = "None"
    THEN [root |-> Leaf(<<key>>, <<value>>), size |-> 1, ret |-> NoneVal, panic |-> FALSE]
    ELSE insert_return(sz, insert_recursive(rt, key, value, bf))

\* ---------------------------------------------------------------- remove
RemRes(node, removed) == [node |-> node, removed |-> removed, panic |-> FALSE]

RemPanic == [node |-> NoneNode, removed |-> NoneVal, panic |-> TRUE]

\* the Leaf arm keeping an emptied leaf in the tree
remove_leaf_keeps_empty(leaf, found_idx) ==
    IF found_idx >= 0
    THEN RemRes(Leaf(VecRemove(leaf.keys, found_idx),
                     VecRemove(leaf.values, found_idx)),
                leaf.values[found_idx + 1])
    ELSE RemRes(leaf, NoneVal)

\* the Leaf arm, found_idx the index of the key or -1
remove_leaf(leaf, found_idx) ==
    IF found_idx >= 0
    THEN IF Len(leaf.keys) = 1
         THEN RemRes(NoneNode, leaf.values[found_idx + 1])
         ELSE RemRes(Leaf(VecRemove(leaf.keys, found_idx),
                          VecRemove(leaf.values, found_idx)),
                     leaf.values[found_idx + 1])
    ELSE RemRes(leaf, NoneVal)

\* the parent's update keeping the separator of a merged pair
apply_balance_keeps_separator(keys, children, idx, b, removed) ==
    IF b.tag = "Merged"
    THEN RemRes(Branch(keys, VecRemove([children EXCEPT ![idx] = b.node], idx)),
                removed)
    ELSE IF b.tag = "Rebalanced"
    THEN RemRes(Branch([keys EXCEPT ![idx] = b.separator],
                       [children EXCEPT ![idx] = b.left, ![idx + 1] = b.right]),
                removed)
    ELSE RemPanic

\* the parent's update after balance_nodes on the pair (idx - 1, idx)
apply_balance(keys, children, idx, b, removed) ==
    IF b.tag = "Merged"
    THEN RemRes(Branch(VecRemove(keys, idx - 1),
                       VecRemove([children EXCEPT ![idx] = b.node], idx)),
                removed)
    ELSE IF b.tag = "Rebalanced"
    THEN RemRes(Branch([keys EXCEPT ![idx] = b.separator],
                       [children EXCEPT ![idx] = b.left, ![idx + 1] = b.right]),
                removed)
    ELSE RemPanic  \* a panicking merge, or "Unexpected balance result for removal"

\* the balancing step looking at the pair (idx, idx + 1) instead
remove_balance_next_sibling(keys1, children1, idx, removed, min_keys) ==
    IF idx + 1 < Len(children1)
    THEN IF idx >= Len(keys1)
         THEN RemPanic
         ELSE apply_balance(keys1, children1, idx + 1,
                  balance_nodes(children1[idx + 1], children1[idx + 2], keys1[idx + 1],
                                min_keys),
                  removed)
    ELSE RemRes(Branch(keys1, children1), removed)

\* "Check if we need to balance adjacent nodes"
remove_balance(keys1, children1, idx, removed, min_keys) ==
    IF idx > 0 /\ idx < Len(children1)
    THEN IF idx - 1 >= Len(keys1)
         THEN RemPanic  \* branch.keys[idx - 1]
         ELSE apply_balance(keys1, children1, idx,
                  balance_nodes(children1[idx], children1[idx + 1], keys1[idx], min_keys),
                  removed)
    ELSE RemRes(Branch(keys1, children1), removed)

\* "Update the branch node": the child is put back, or an emptied child is
\* removed with an adjoining separator
remove_update(branch, idx, r, min_keys) ==
    IF r.panic THEN RemPanic
    ELSE IF r.node.kind # "None"
    THEN remove_balance(branch.keys, [branch.children EXCEPT ![idx + 1] = r.node],
                        idx, r.removed, min_keys)
    ELSE IF idx > 0 /\ idx - 1 >= Len(branch.keys)
    THEN RemPanic  \* branch.keys.remove(idx - 1)
    ELSE remove_balance(IF idx > 0 THEN VecRemove(branch.keys, idx - 1)
                        ELSE IF Len(branch.keys) # 0 THEN VecRemove(branch.keys, 0)
                        ELSE branch.keys,
                        VecRemove(branch.children, idx),
                        idx, r.removed, min_keys)

RECURSIVE remove_recursive(_, _, _)
\* the Branch arm, idx the child the key routes to
remove_branch(branch, key, idx, min_keys) ==
    IF idx < Len(branch.children)
    THEN remove_update(branch, idx,
                       remove_recursive(branch.children[idx + 1], key, min_keys), min_keys)
    ELSE RemRes(branch, NoneVal)

remove_recursive(node, key, min_keys) ==
    IF node.kind = "Leaf"
    THEN remove_leaf(node, leaf_find(node.keys, key))
    ELSE remove_branch(node, key, route_idx(node.keys, key), min_keys)

\* remove's root update collapsing a root branch that has no child left
remove_return_collapses_root(sz, r) ==
    IF r.panic
    THEN [root |-> NoneNode, size |-> sz, ret |-> NoneVal, panic |-> TRUE]
    ELSE [root |-> IF r.node.kind = "Branch" /\ Len(r.node.children) = 0
                   THEN NoneNode ELSE r.node,
          size |-> IF r.removed # NoneVal THEN sz - 1 ELSE sz,
          ret |-> r.removed, panic |-> FALSE]

\* the Some(root) arm of remove, r the result of remove_recursive
remove_return(sz, r) ==
    IF r.panic
    THEN [root |-> NoneNode, size |-> sz, ret |-> NoneVal, panic |-> TRUE]
    ELSE [root |-> r.node, size |-> IF r.removed # NoneVal THEN sz - 1 ELSE sz,
          ret |-> r.removed, panic |-> FALSE]

\* BPlusTreeMap::remove on (root, size)
remove(rt, sz, key, min_keys) ==
    IF rt.kind = "None"
    THEN [root |-> NoneNode, size |-> sz, ret |-> NoneVal, panic |-> FALSE]
    ELSE remove_return(sz, remove_recursive(rt, key, min_keys))

\* ------------------------------------------------------------------- get
RECURSIVE find_leaf_for_key_recursive(_, _)
\* the Branch arm of find_leaf_for_key(_recursive), idx the routed child
find_leaf_in_branch(branch, key, idx) ==
    IF idx < Len(branch.children)
    THEN find_leaf_for_key_recursive(branch.children[idx + 1], key)
    ELSE NoneNode

find_leaf_for_key_recursive(node, key) ==
    IF node.kind = "Leaf" THEN node
    ELSE find_leaf_in_branch(node, key, route_idx(node.keys, key))

\* NoneNode is Option::None
find_leaf_for_key(rt, key) ==
    IF rt.kind = "None" THEN NoneNode ELSE find_leaf_for_key_recursive(rt, key)

\* the scan of the leaf that get found
get_in_leaf(leaf, found_idx) ==
    IF leaf.kind = "Leaf" /\ found_idx >= 0 THEN leaf.values[found_idx + 1] ELSE NoneVal

get_from(leaf, key) == get_in_leaf(leaf, leaf_find(leaf.keys, key))

get(rt, key) == get_from(find_leaf_for_key(rt, key), key)

contains_key(rt, key) == get(rt, key) # NoneVal

len(sz) == sz

is_empty(sz) == sz = 0

root_kind(rt) == IF rt.kind = "None" THEN "Empty" ELSE rt.kind

\* ------------------------------------------------------------- traversal
\* collect_refs_from_node: the (key, value) pairs of the leaves, left to right
RECURSIVE collect_refs_from_node(_)
RECURSIVE collect_children(_, _)
collect_children(children, i) ==
    IF i > Len(children) THEN <<>>
    ELSE collect_refs_from_node(children[i]) \o collect_children(children, i + 1)

collect_refs_from_node(node) ==
    IF node.kind = "Leaf"
    THEN [i \in 1..Len(node.keys) |-> <<node.keys[i], node.values[i]>>]
    ELSE IF node.kind = "Branch" THEN collect_children(node.children, 1)
    ELSE <<>>

\* entries.sort_by(|a, b| a.0.cmp(b.0)): a stable sort by key
RECURSIVE sort_insert(_, _)
sort_insert(sorted, e) ==
    IF Len(sorted) = 0 THEN <<e>>
    ELSE IF sorted[Len(sorted)][1] <= e[1] THEN Append(sorted, e)
    ELSE Append(sort_insert(SubSeq(sorted, 1, Len(sorted) - 1), e), sorted[Len(sorted)])

RECURSIVE sort_by_key(_)
sort_by_key(entries) ==
    IF Len(entries) = 0 THEN <<>>
    ELSE sort_insert(sort_by_key(SubSeq(entries, 1, Len(entries) - 1)), entries[Len(entries)])

collect_refs(rt) == sort_by_key(collect_refs_from_node(rt))

\* iter(): the pairs of collect_refs; keys(): their keys
iter(rt) == collect_refs(rt)

first_of(entries) == [i \in 1..Len(entries) |-> entries[i][1]]

keys(rt) == first_of(collect_refs(rt))

\* accept_node with a CollectingVisitor: visit_leaf pushes the leaf's pairs,
\* visit_branch pushes nothing, the children are visited left to right
RECURSIVE accept_node(_)
RECURSIVE accept_children(_, _)
accept_children(children, i) ==
    IF i > Len(children) THEN <<>>
    ELSE accept_node(children[i]) \o accept_children(children, i + 1)

accept_node(node) ==
    IF node.kind = "Leaf"
    THEN [i \in 1..Len(node.keys) |-> <<node.keys[i], node.values[i]>>]
    ELSE accept_children(node.children, 1)

\* traverse(|k, v| (k.clone(), v.clone())) on a map with the given root
traverse(rt) == IF rt.kind = "None" THEN <<>> ELSE accept_node(rt)

\* collect_entries(node): the traversal of a temporary map rooted at node
collect_entries(node) == traverse(node)

\* into_iter(): the entries in the order collected, no sort
into_iter(rt) == IF rt.kind = "None" THEN <<>> ELSE collect_entries(rt)

into_iter_without_consuming(rt) == traverse(rt)

\* ---------------------------------------------------- mutable traversal
\* An accessor (&mut V) is the storage slot it points to: <<path, i>>, path the
\* child positions from the root down to the leaf, i the position in
\* leaf.values.
\* SafeMutableVisitor::visit_leaf: (key clone, accessor) for i in 0..keys.len()
SafeMutableVisitor_visit_leaf(leaf, path) ==
    [i \in 1..Len(leaf.keys) |-> <<leaf.keys[i], <<path, i>>>>]

\* SafeValuesMutVisitor::visit_leaf: an accessor for i in 0..values.len()
SafeValuesMutVisitor_visit_leaf(leaf, path) ==
    [i \in 1..Len(leaf.values) |-> <<path, i>>]

visit_leaf(visitor, leaf, path) ==
    IF visitor = "SafeMutableVisitor" THEN SafeMutableVisitor_visit_leaf(leaf, path)
    ELSE SafeValuesMutVisitor_visit_leaf(leaf, path)

\* accept_node_visitor_mut: visit_branch collects nothing, the children are
\* visited left to right
RECURSIVE accept_node_visitor_mut(_, _, _)
RECURSIVE accept_children_visitor_mut(_, _, _, _)
accept_children_visitor_mut(visitor, children, path, i) ==
    IF i > Len(children) THEN <<>>
    ELSE accept_node_visitor_mut(visitor, children[i], Append(path, i))
             \o accept_children_visitor_mut(visitor, children, path, i + 1)

accept_node_visitor_mut(visitor, node, path) ==
    IF node.kind = "Leaf" THEN visit_leaf(visitor, node, path)
    ELSE accept_children_visitor_mut(visitor, node.children, path, 1)

accept_visitor_mut(visitor, rt) ==
    IF rt.kind = "None" THEN <<>> ELSE accept_node_visitor_mut(visitor, rt, <<>>)

\* collect_mut_refs: the (key, accessor) entries, stably sorted by key
collect_mut_refs(rt) == sort_by_key(accept_visitor_mut("SafeMutableVisitor", rt))

\* iter_mut(): IterMut hands out the entries of collect_mut_refs in order
iter_mut(rt) == collect_mut_refs(rt)

\* values_mut(): ValuesMut hands out the visitor's accessors in order
values_mut(rt) == accept_visitor_mut("SafeValuesMutVisitor", rt)

\* the leaf an accessor points into
RECURSIVE leaf_at(_, _)
leaf_at(node, path) ==
    IF Len(path) = 0 THEN node ELSE leaf_at(node.children[Head(path)], Tail(path))

\* *accessor = w
RECURSIVE write_slot(_, _, _, _)
write_slot(node, path, i, w) ==
    IF Len(path) = 0 THEN [node EXCEPT !.values[i] = w]
    ELSE [node EXCEPT !.children[Head(path)] = write_slot(@, Tail(path), i, w)]

\* ------------------------------------------------------------ entry API
\* "for (k, v) in entries { if k == self.key { return v; } }": the accessor of
\* the first entry with the key, NoSlot when the loop ends (the panic "Key not
\* found in map")
NoSlot == <<>>

RECURSIVE first_with_key(_, _, _)
first_with_key(entries, key, i) ==
    IF i > Len(entries) THEN NoSlot
    ELSE IF entries[i][1] = key THEN entries[i][2]
    ELSE first_with_key(entries, key, i + 1)

\* the result of or_insert: the map's root and size and the returned accessor
EntryRes(rt, sz, slot) ==
    [root |-> rt, size |-> sz, slot |-> slot, panic |-> slot = NoSlot]

OccupiedEntry_into_mut(rt, sz, key) ==
    EntryRes(rt, sz, first_with_key(collect_mut_refs(rt), key, 1))

\* VacantEntry::insert after self.map.insert(..) returned r
VacantEntry_insert_return(r, key) ==
    IF r.panic THEN [root |-> r.root, size |-> r.size, slot |-> NoSlot, panic |-> TRUE]
    ELSE EntryRes(r.root, r.size, first_with_key(collect_mut_refs(r.root), key, 1))

VacantEntry_insert(rt, sz, key, value, bf) ==
    VacantEntry_insert_return(insert(rt, sz, key, value, bf), key)

\* entry(key): Occupied when contains_key(key)
entry(rt, key) == IF contains_key(rt, key) THEN "Occupied" ELSE "Vacant"

\* entry(key).or_insert(default)
or_insert(rt, sz, key, default, bf) ==
    IF entry(rt, key) = "Occupied" THEN OccupiedEntry_into_mut(rt, sz, key)
    ELSE VacantEntry_insert(rt, sz, key, default, bf)

\* the value an accessor reads
read_slot(rt, slot) == leaf_at(rt, slot[1]).values[slot[2]]

\* ---------------------------------------------------------------- clone
\* "for (k, v) in entries { new_map.insert(k, v); }" from entry i on, m the new
\* map so far
RECURSIVE clone_insert_entries(_, _, _, _)
clone_insert_entries(m, entries, i, bf) ==
    IF i > Len(entries) \/ m.panic THEN m
    ELSE clone_insert_entries(insert(m.root, m.size, entries[i][1], entries[i][2], bf),
                              entries, i + 1, bf)

\* clone(): a new map with the same branching factor, filled by insert from
\* the entries of into_iter_without_consuming()
clone(rt, bf) ==
    clone_insert_entries([root |-> NoneNode, size |-> 0, ret |-> NoneVal, panic |-> FALSE],
                         into_iter_without_consuming(rt), 1, bf)

\* ---------------------------------------------------------- constructors
Failed(panic) == [ok |-> FALSE, panic |-> panic, root |-> NoneNode, size |-> 0,
                  branching_factor |-> 0]

\* with_branching_factor rejecting only a branching factor of 0
with_branching_factor_accepts_one(b) ==
    IF b < 1 THEN Failed(FALSE)
    ELSE [ok |-> TRUE, panic |-> FALSE, root |-> NoneNode, size |-> 0,
          branching_factor |-> b]

\* with_branching_factor(b): ok = FALSE, panic = FALSE is the panic "Branching
\* factor must be at least 2"
with_branching_factor(b) ==
    IF b < 2 THEN Failed(FALSE)
    ELSE [ok |-> TRUE, panic |-> FALSE, root |-> NoneNode, size |-> 0,
          branching_factor |-> b]

\* with_branch_root counting the left leaf only
with_branch_root_counts_left(b, left_leaf, right_leaf, separator_key) ==
    IF b < 2 THEN Failed(FALSE)
    ELSE IF separator_key = NoneVal /\ Len(right_leaf.keys) = 0 THEN Failed(TRUE)
    ELSE [ok |-> TRUE, panic |-> FALSE,
          root |-> Branch(<<IF separator_key # NoneVal THEN separator_key
                            ELSE right_leaf.keys[1]>>,
                          <<left_leaf, right_leaf>>),
          size |-> Len(left_leaf.keys),
          branching_factor |-> b]

\* with_branch_root(b, left_leaf, right_leaf, separator_key); separator_key
\* NoneVal is Option::None; panic = TRUE is right_leaf.keys[0] out of bounds
with_branch_root(b, left_leaf, right_leaf, separator_key) ==
    IF b < 2 THEN Failed(FALSE)
    ELSE IF separator_key = NoneVal /\ Len(right_leaf.keys) = 0 THEN Failed(TRUE)
    ELSE [ok |-> TRUE, panic |-> FALSE,
          root |-> Branch(<<IF separator_key # NoneVal THEN separator_key
                            ELSE right_leaf.keys[1]>>,
                          <<left_leaf, right_leaf>>),
          size |-> Len(left_leaf.keys) + Len(right_leaf.keys),
          branching_factor |-> b]

\* --------------------------------------------------------- state machine
NoCall == [op |-> "none", key |-> 0, value |-> NoneVal, ret |-> NoneVal,
           size |-> 0, had |-> NoneVal, hist |-> NoneVal, args |-> <<>>]

\* no clone() has returned yet
NoMap == [made |-> FALSE, root |-> NoneNode, size |-> 0, fault |-> "none", at |-> 0]

Init ==
    /\ other = NoMap
    /\ root = NoneNode
    /\ size = 0
    /\ branching_factor = 0
    /\ constructed = FALSE
    /\ fault = "none"
    /\ hist = [k \in Keys |-> NoneVal]
    /\ last = NoCall
    /\ nops = 0

\* a constructor call with result c; a are the arguments after b
Construct(c, op, b, a) ==
    /\ ~constructed
    /\ fault = "none"
    /\ root' = c.root
    /\ size' = c.size
    /\ branching_factor' = c.branching_factor
    /\ constructed' = c.ok
    /\ fault' = IF c.ok THEN "none" ELSE IF c.panic THEN "panic" ELSE "config"
    /\ last' = [NoCall EXCEPT !.op = op, !.key = b, !.args = a]
    /\ nops' = nops
    /\ other' = other

WithBranchingFactor ==
    \E b \in 0..MaxB :
        /\ Construct(with_branching_factor(b), "with_branching_factor", b, <<>>)
        /\ hist' = hist

\* the leaves a caller hands to with_branch_root: strictly ascending keys
LeafInputs ==
    {Leaf(ks, [i \in 1..Len(ks) |-> 1]) :
        ks \in {q \in UNION {[1..n -> Keys] : n \in 0..MaxLeafLen} :
                    \A i, j \in 1..Len(q) : i < j => q[i] < q[j]}}

entry_of(leaf, k) == get_in_leaf(leaf, leaf_find(leaf.keys, k))

WithBranchRoot ==
    \E b \in 0..MaxB, left_leaf \in LeafInputs, right_leaf \in LeafInputs,
       separator_key \in {NoneVal} \cup Keys :
        /\ Construct(with_branch_root(b, left_leaf, right_leaf, separator_key),
                     "with_branch_root", b, <<left_leaf, right_leaf, separator_key>>)
        /\ hist' = IF b >= 2 /\ (separator_key # NoneVal \/ Len(right_leaf.keys) # 0)
                   THEN [k \in Keys |-> IF entry_of(left_leaf, k) # NoneVal
                                        THEN entry_of(left_leaf, k)
                                        ELSE entry_of(right_leaf, k)]
                   ELSE hist

\* an insert or remove call with result r
Call(r, op, key, value, newhist) ==
    /\ root' = r.root
    /\ size' = r.size
    /\ fault' = IF r.panic THEN "panic" ELSE "none"
    /\ last' = [op |-> op, key |-> key, value |-> value, ret |-> r.ret,
                size |-> size, had |-> get(root, key), hist |-> hist[key],
                args |-> <<>>]
    /\ hist' = [hist EXCEPT ![key] = newhist]
    /\ nops' = nops + 1
    /\ UNCHANGED <<branching_factor, constructed, other>>

InsertCall(V, N) ==
    \E key \in Keys, value \in V :
        /\ constructed
        /\ fault = "none"
        /\ nops < N
        /\ Call(insert(root, size, key, value, branching_factor), "insert", key, value, value)

RemoveCall(N) ==
    \E key \in Keys :
        /\ constructed
        /\ fault = "none"
        /\ nops < N
        /\ Call(remove(root, size, key, min_keys_of(branching_factor)),
                "remove", key, NoneVal, NoneVal)

Insert == InsertCall(Vals, MaxOps)

Remove == RemoveCall(MaxOps)

Next == WithBranchingFactor \/ Insert \/ Remove

Spec == Init /\ [][Next]_vars

InsertDeep == InsertCall(DeepVals, MaxOpsDeep)

RemoveDeep == RemoveCall(MaxOpsDeep)

NextDeep == WithBranchingFactor \/ InsertDeep \/ RemoveDeep

SpecDeep == Init /\ [][NextDeep]_vars

WithBranchingFactorWide ==
    \E b \in 0..MaxBWide :
        /\ Construct(with_branching_factor(b), "with_branching_factor", b, <<>>)
        /\ hist' = hist

InsertWide == InsertCall(DeepVals, MaxOpsWide)

RemoveWide == RemoveCall(MaxOpsWide)

NextWide == WithBranchingFactorWide \/ InsertWide \/ RemoveWide

SpecWide == Init /\ [][NextWide]_vars

InsertOnly == InsertCall(Vals, MaxOpsInsertOnly)

NextInsertOnly == WithBranchingFactor \/ InsertOnly

SpecInsertOnly == Init /\ [][NextInsertOnly]_vars

InsertCtor == InsertCall(Vals, MaxOpsCtor)

RemoveCtor == RemoveCall(MaxOpsCtor)

NextCtor == WithBranchingFactor \/ WithBranchRoot \/ InsertCtor \/ RemoveCtor

SpecCtor == Init /\ [][NextCtor]_vars

\* a write of w through the accessor slot, one of the count accessors that
\* iter_mut() or values_mut() (op) returned; key is the key stored with the slot
MutWrite(op, key, slot, w, count) ==
    /\ root' = write_slot(root, slot[1], slot[2], w)
    /\ last' = [op |-> op, key |-> key, value |-> w, ret |-> count,
                size |-> size, had |-> get(root, key), hist |-> hist[key],
                args |-> slot]
    /\ nops' = nops + 1
    /\ UNCHANGED <<size, branching_factor, constructed, fault, hist, other>>

IterMutWrite ==
    \E w \in Vals :
        /\ constructed
        /\ fault = "none"
        /\ nops < MaxOpsMut
        /\ \E i \in 1..Len(iter_mut(root)) :
               MutWrite("iter_mut", iter_mut(root)[i][1], iter_mut(root)[i][2], w,
                        Len(iter_mut(root)))

ValuesMutWrite ==
    \E w \in Vals :
        /\ constructed
        /\ fault = "none"
        /\ nops < MaxOpsMut
        /\ \E i \in 1..Len(values_mut(root)) :
               MutWrite("values_mut",
                        leaf_at(root, values_mut(root)[i][1]).keys[values_mut(root)[i][2]],
                        values_mut(root)[i], w, Len(values_mut(root)))

\* inserts store the values of DeepVals, writes any value of Vals
InsertMut == InsertCall(DeepVals, MaxOpsMut)

RemoveMut == RemoveCall(MaxOpsMut)

NextMut == WithBranchingFactor \/ InsertMut \/ RemoveMut \/ IterMutWrite \/ ValuesMutWrite

SpecMut == Init /\ [][NextMut]_vars

\* an entry(key).or_insert(d) call with result r; ret is the value the
\* returned accessor reads, and hist takes d when key was not in the map
OrInsertCall(r, key, d) ==
    /\ root' = r.root
    /\ size' = r.size
    /\ fault' = IF r.panic THEN "panic" ELSE "none"
    /\ last' = [op |-> "or_insert", key |-> key, value |-> d,
                ret |-> IF r.panic THEN NoneVal ELSE read_slot(r.root, r.slot),
                size |-> size, had |-> get(root, key), hist |-> hist[key],
                args |-> r.slot]
    /\ hist' = [hist EXCEPT ![key] = IF @ = NoneVal THEN d ELSE @]
    /\ nops' = nops + 1
    /\ UNCHANGED <<branching_factor, constructed, other>>

EntryOrInsert ==
    \E key \in Keys, d \in Vals :
        /\ constructed
        /\ fault = "none"
        /\ nops < MaxOpsEntry
        /\ OrInsertCall(or_insert(root, size, key, d, branching_factor), key, d)

\* inserts store the values of DeepVals, or_insert any default of Vals
InsertEntry == InsertCall(DeepVals, MaxOpsEntry)

RemoveEntry == RemoveCall(MaxOpsEntry)

NextEntry == WithBranchingFactor \/ InsertEntry \/ RemoveEntry \/ EntryOrInsert

SpecEntry == Init /\ [][NextEntry]_vars

\* clone() with result c
CloneCall(c) ==
    /\ other' = [made |-> TRUE, root |-> c.root, size |-> c.size,
                 fault |-> IF c.panic THEN "panic" ELSE "none", at |-> nops]
    /\ last' = [NoCall EXCEPT !.op = "clone", !.size = size]
    /\ nops' = nops + 1
    /\ UNCHANGED <<root, size, branching_factor, constructed, fault, hist>>

Clone ==
    /\ constructed
    /\ fault = "none"
    /\ ~other.made
    /\ nops < MaxOpsClone
    /\ CloneCall(clone(root, branching_factor))

\* an insert or remove call (op) on the clone with result r
OtherCall(r, op, key, value) ==
    /\ other' = [made |-> TRUE, root |-> r.root, size |-> r.size,
                 fault |-> IF r.panic THEN "panic" ELSE "none", at |-> other.at]
    /\ last' = [op |-> op, key |-> key, value |-> value, ret |-> r.ret,
                size |-> other.size, had |-> get(other.root, key),
                hist |-> NoneVal, args |-> <<>>]
    /\ nops' = nops + 1
    /\ UNCHANGED <<root, size, branching_factor, constructed, fault, hist>>

\* the calls after clone() are counted from nops = other.at + 1
AfterClone == other.made /\ nops <= other.at + MaxOpsAfterClone

InsertOther ==
    \E key \in Keys, value \in DeepVals :
        /\ AfterClone
        /\ other.fault = "none"
        /\ nops < MaxOpsClone
        /\ OtherCall(insert(other.root, other.size, key, value, branching_factor),
                     "clone.insert", key, value)

RemoveOther ==
    \E key \in Keys :
        /\ AfterClone
        /\ other.fault = "none"
        /\ nops < MaxOpsClone
        /\ OtherCall(remove(other.root, other.size, key, min_keys_of(branching_factor)),
                     "clone.remove", key, NoneVal)

InsertClone == (other.made => AfterClone) /\ InsertCall(DeepVals, MaxOpsClone)

RemoveClone == (other.made => AfterClone) /\ RemoveCall(MaxOpsClone)

NextClone ==
    WithBranchingFactor \/ InsertClone \/ RemoveClone \/ Clone \/ InsertOther \/ RemoveOther

SpecClone == Init /\ [][NextClone]_vars

\* ------------------------------------------- calls of the node operations
\* The splitters, mergers and balancers are public and work on nodes handed to
\* them, without a map.  A call is recorded in last: args holds the arguments,
\* ret the result as the tuple outcome(r).
UnitB == 2..MaxBUnit

\* the strictly ascending sequences of 0..m keys
AscendingKeys(m) ==
    {q \in UNION {[1..n -> Keys] : n \in 0..m} :
         \A i, j \in 1..Len(q) : i < j => q[i] < q[j]}

\* leaves of 0..m strictly ascending keys, with any values
UnitLeaves(m) ==
    UNION {{Leaf(ks, vs) : vs \in [1..Len(ks) -> Vals]} : ks \in AscendingKeys(m)}

\* branches of n = 0..m strictly ascending keys and n + 1 children; the
\* operations never look into a child, child i is the leaf of the one key i
UnitBranches(m) ==
    {Branch(ks, [i \in 1..Len(ks) + 1 |-> Leaf(<<i>>, <<1>>)]) : ks \in AscendingKeys(m)}

outcome(r) == <<r.tag, r.node, r.left, r.right, r.separator>>

ret_tag == last.ret[1]

ret_node == last.ret[2]

ret_left == last.ret[3]

ret_right == last.ret[4]

ret_separator == last.ret[5]

\* a call op with arguments a that returned ret (a tuple); each behaviour
\* makes one call
UnitCall(op, a, ret) ==
    /\ last.op = "none"
    /\ last' = [NoCall EXCEPT !.op = op, !.args = a, !.ret = ret]
    /\ UNCHANGED <<root, size, branching_factor, constructed, fault, hist, nops, other>>

LeafSplit ==
    \E node \in UnitLeaves(MaxKey), bf \in UnitB :
        UnitCall("LeafNodeSplitter::split", <<node, bf>>,
                 outcome(LeafNodeSplitter_split(node, bf)))

BranchSplit ==
    \E node \in UnitBranches(MaxKey), bf \in UnitB :
        UnitCall("BranchNodeSplitter::split", <<node, bf>>,
                 outcome(BranchNodeSplitter_split(node, bf)))

\* the leaf of the keys ks[from..to], each with the value 1 + (key % MaxVal)
leaf_of(ks, from, to) ==
    Leaf(SubSeq(ks, from, to), [i \in 1..(to - from + 1) |-> 1 + (ks[from + i - 1] % MaxVal)])

\* sibling leaves: strictly ascending keys cut in two at any place
UnitLeafPairs(m) ==
    UNION {{<<leaf_of(ks, 1, c), leaf_of(ks, c + 1, Len(ks))>> : c \in 0..Len(ks)}
               : ks \in AscendingKeys(m)}

\* the branch of the keys ks[from..to] with one more child than keys; child i
\* is the leaf of the one key first + i
branch_of(ks, from, to, first) ==
    Branch(SubSeq(ks, from, to), [i \in 1..(to - from + 2) |-> Leaf(<<first + i>>, <<1>>)])

\* sibling branches and the separator between them: strictly ascending keys,
\* one of them (at c) being the parent's separator
UnitBranchPairs(m) ==
    UNION {{<<branch_of(ks, 1, c - 1, 0), branch_of(ks, c + 1, Len(ks), c), ks[c]>>
                : c \in 1..Len(ks)}
               : ks \in AscendingKeys(m)}

LeafNeedsMerge ==
    \E pair \in UnitLeafPairs(MaxKey), bf \in UnitB :
        UnitCall("LeafNodeMerger::needs_merge", <<pair[1], pair[2], bf>>,
                 <<LeafNodeMerger_needs_merge(pair[1], pair[2], min_keys_of(bf))>>)

BranchNeedsMerge ==
    \E pair \in UnitBranchPairs(MaxKey), bf \in UnitB :
        UnitCall("BranchNodeMerger::needs_merge", <<pair[1], pair[2], bf>>,
                 <<BranchNodeMerger_needs_merge(pair[1], pair[2], min_keys_of(bf))>>)

\* RemovalBalancer::new(bf).balance_nodes(left, right, separator)
BalanceLeaves ==
    \E pair \in UnitLeafPairs(MaxKey), sep \in Keys, bf \in UnitB :
        UnitCall("RemovalBalancer::balance_nodes", <<pair[1], pair[2], sep, bf>>,
                 outcome(balance_nodes(pair[1], pair[2], sep, min_keys_of(bf))))

BalanceBranches ==
    \E pair \in UnitBranchPairs(MaxKey), bf \in UnitB :
        UnitCall("RemovalBalancer::balance_nodes", <<pair[1], pair[2], pair[3], bf>>,
                 outcome(balance_nodes(pair[1], pair[2], pair[3], min_keys_of(bf))))

NextNodeOps ==
    \/ LeafSplit
    \/ BranchSplit
    \/ LeafNeedsMerge
    \/ BranchNeedsMerge
    \/ BalanceLeaves
    \/ BalanceBranches

SpecNodeOps == Init /\ [][NextNodeOps]_vars

\* ascending scenarios: insert(1), insert(2), ... and then remove(1),
\* remove(2), ...  The keys still in the map are present; no remove has been
\* called while every call so far added its key.
present == {k \in Keys : hist[k] # NoneVal}

lowest(S) == CHOOSE k \in S : \A j \in S : k <= j

InsertAscending ==
    \E value \in Vals :
        /\ constructed
        /\ fault = "none"
        /\ Cardinality(present) = nops
        /\ nops + 1 \in Keys
        /\ Call(insert(root, size, nops + 1, value, branching_factor),
                "insert", nops + 1, value, value)

RemoveAscending ==
    /\ constructed
    /\ fault = "none"
    /\ present # {}
    /\ Call(remove(root, size, lowest(present), min_keys_of(branching_factor)),
            "remove", lowest(present), NoneVal, NoneVal)

NextAscending == WithBranchingFactor \/ InsertAscending \/ RemoveAscending

SpecAscending == Init /\ [][NextAscending]_vars

\* ------------------------------------------------------------- properties
\* a call has returned to the caller: the map was constructed and no call
\* panicked
Returned == constructed /\ fault = "none"

InsertReturned == last.op = "insert" /\ Returned

RemoveReturned == last.op = "remove" /\ Returned

\* C1: for every key k, get(k) is Some(v) exactly when the most recent
\* mutating call on k was insert(k, v), and None when k was never inserted or
\* was removed since.
C1_SurvivingEntries == Returned => \A k \in Keys : get(root, k) = hist[k]

\* C2: immediately after insert(k, v) returns, get(k) == Some(v) and
\* contains_key(k) is true.
C2_InsertThenGet ==
    InsertReturned => get(root, last.key) = last.value /\ contains_key(root, last.key)

\* C3: when k was inserted with v and not removed since, remove(k) returns
\* Some(v), the following get(k) returns None and len() is one less than before.
C3_RemoveReturnsValue ==
    (RemoveReturned /\ last.hist # NoneVal) =>
        /\ last.ret = last.hist
        /\ get(root, last.key) = NoneVal
        /\ len(size) = last.size - 1

\* C4: insert(k, v2) where k currently holds v1 (the most recent mutating call
\* on k was insert(k, v1)) returns Some(v1) and leaves len() unchanged; insert
\* of a key not currently in the map (never inserted, or removed since) returns
\* None and increases len() by exactly 1.
C4_InsertReturnsOld ==
    InsertReturned =>
        IF last.hist # NoneVal
        THEN last.ret = last.hist /\ len(size) = last.size
        ELSE last.ret = NoneVal /\ len(size) = last.size + 1

\* C5: remove(k) of a key that is not in the map returns None and leaves
\* len(), the result of get for every key and the sequence of iter() unchanged.
C5_RemoveAbsentIsNoOp ==
    [][(last'.op = "remove" /\ nops' = nops + 1 /\ fault' = "none"
            /\ hist[last'.key] = NoneVal /\ get(root, last'.key) = NoneVal) =>
        /\ last'.ret = NoneVal
        /\ len(size') = len(size)
        /\ \A k \in Keys : get(root', k) = get(root, k)
        /\ iter(root') = iter(root)]_vars

strictly_ascending(ks) == \A i, j \in 1..Len(ks) : i < j => ks[i] < ks[j]

\* C6: iter() and keys() yield each key currently in the map exactly once, in
\* strictly ascending key order.
C6_IterAscendingOnce ==
    Returned =>
        /\ strictly_ascending(keys(root))
        /\ {keys(root)[i] : i \in 1..Len(keys(root))} = {k \in Keys : hist[k] # NoneVal}

\* C7: in every reachable state of a constructed map, len() equals the number
\* of (key, value) pairs reachable by traversing all leaves of the tree.
C7_LenIsLeafCount == constructed => len(size) = Len(collect_refs_from_node(root))

\* the same in the states a call returned to (no call has panicked)
LenIsLeafCountWhenReturned ==
    Returned => len(size) = Len(collect_refs_from_node(root))

\* C8: len() equals the number of distinct keys k for which contains_key(k) is
\* true, and is_empty() is true exactly when no key is contained.
C8_LenIsContainedCount ==
    Returned =>
        /\ len(size) = Cardinality({k \in Keys : contains_key(root, k)})
        /\ is_empty(size) <=> \A k \in Keys : ~contains_key(root, k)


pairs(entries) == {entries[i] : i \in 1..Len(entries)}

\* a tree of three levels: the root's children are branches produced by a
\* branch split
split_twice(rt) ==
    /\ rt.kind = "Branch"
    /\ Len(rt.children) >= 2
    /\ \A i \in 1..Len(rt.children) : rt.children[i].kind = "Branch"

\* C9: in a sequence of insert calls only, the set of (key, value) pairs of a
\* full traversal after insert(k, v) is the set before it without k's pair and
\* with (k, v), and the traversal yields no pair twice: a split neither loses,
\* duplicates nor alters entries.
C9_SplitPreservesEntries ==
    [][(last'.op = "insert" /\ nops' = nops + 1) =>
        /\ fault' = "none"
        /\ pairs(iter(root')) =
               {e \in pairs(iter(root)) : e[1] # last'.key}
                   \cup {<<last'.key, last'.value>>}
        /\ Len(iter(root')) = Cardinality(pairs(iter(root')))
        /\ Len(iter(root')) = Len(iter(root)) + (IF last'.ret = NoneVal THEN 1 ELSE 0)]_vars

C9_Witness ==
    /\ InsertReturned
    /\ split_twice(root)
    /\ Len(iter(root)) = last.size + 1
    /\ Cardinality(pairs(iter(root))) = Len(iter(root))

\* C10: with_branching_factor(B) and with_branch_root(B, ...) with B < 2 fail
\* with the configuration error and create no tree; with_branching_factor(2)
\* succeeds with an empty tree, len() == 0 and root_kind() == Empty.
C10_ConstructorValidation ==
    /\ (last.op \in {"with_branching_factor", "with_branch_root"} /\ last.key < 2) =>
           fault = "config" /\ ~constructed /\ root = NoneNode
    /\ (last.op = "with_branching_factor" /\ last.key = 2) =>
           /\ Returned
           /\ branching_factor = 2
           /\ len(size) = 0
           /\ is_empty(size)
           /\ root_kind(root) = "Empty"

C10_Witness ==
    /\ last.op = "with_branch_root"
    /\ last.key = 1
    /\ fault = "config"
    /\ ~constructed


\* the calls so far were insert(1), ..., insert(n) on a map of branching
\* factor b
inserted_ascending(b, n) ==
    /\ Returned
    /\ branching_factor = b
    /\ nops = n
    /\ present = 1..n

ascending_scenario(b, n, m) ==
    /\ Returned
    /\ branching_factor = b
    /\ nops = n + m
    /\ present = (m + 1)..n

\* C12: with B = 2, four ascending inserts (the scenario's keys 0, 1, 2, 3 are
\* the keys 1, 2, 3, 4 here: the map only compares keys) make the root a
\* Branch; after removing the three lowest keys the highest is still found
\* with its value, len() == 1 and the root is still a Branch; after removing
\* it too is_empty() holds and the root is still a Branch.
C12_RootStaysBranch ==
    /\ ascending_scenario(2, 4, 0) => root_kind(root) = "Branch"
    /\ ascending_scenario(2, 4, 3) =>
           /\ get(root, 4) = hist[4]
           /\ get(root, 4) # NoneVal
           /\ len(size) = 1
           /\ root_kind(root) = "Branch"
    /\ ascending_scenario(2, 4, 4) =>
           /\ is_empty(size)
           /\ root_kind(root) = "Branch"

C12_Witness ==
    /\ ascending_scenario(2, 4, 4)
    /\ last.op = "remove"
    /\ last.key = 4
    /\ last.ret # NoneVal
    /\ root_kind(root) = "Branch"


\* the map with_branch_root(3, leaf [1,2], leaf [3,4], Some(3)) returned: the
\* scenario with_branch_root(3, [1,2], [4,5], Some(4)) with its keys 1, 2, 4,
\* 5, 6 numbered 1..5 in order (the map only compares keys)
scenario_D ==
    /\ Returned
    /\ last.op = "with_branch_root"
    /\ last.key = 3
    /\ last.args = <<Leaf(<<1, 2>>, <<1, 1>>), Leaf(<<3, 4>>, <<1, 1>>), 3>>

\* C13: a with_branch_root(B, left, right, sep) that returns a map yields the
\* root Branch over exactly the leaves left and right, with the one separator
\* sep (right's first key when sep is None) and len() == |left.keys| +
\* |right.keys|; on scenario D, insert of left's key 2 returns its previous
\* value and leaves len() unchanged, and insert of a key above all keys
\* returns None and increases len() by 1.
C13_BranchRootBootstrap ==
    [][/\ (last'.op = "with_branch_root" /\ constructed') =>
              /\ root' = Branch(<<IF last'.args[3] # NoneVal THEN last'.args[3]
                                  ELSE last'.args[2].keys[1]>>,
                                <<last'.args[1], last'.args[2]>>)
              /\ len(size') = Len(last'.args[1].keys) + Len(last'.args[2].keys)
              /\ root_kind(root') = "Branch"
       /\ (scenario_D /\ last'.op = "insert" /\ last'.key = 2) =>
              /\ last'.ret = 1
              /\ fault' = "none"
              /\ len(size') = len(size)
              /\ get(root', 2) = last'.value
       /\ (scenario_D /\ last'.op = "insert" /\ last'.key = 5) =>
              /\ last'.ret = NoneVal
              /\ fault' = "none"
              /\ len(size') = len(size) + 1
              /\ get(root', 5) = last'.value]_vars

C13_Witness ==
    /\ InsertReturned
    /\ last.key = 5
    /\ last.ret = NoneVal
    /\ branching_factor = 3
    /\ nops = 1
    /\ len(size) = 5
    /\ root.kind = "Branch"
    /\ root.keys = <<3>>
    /\ first_of(collect_refs_from_node(root)) = <<1, 2, 3, 4, 5>>


\* C14: into_iter() yields exactly the pairs of the map, each once, in
\* ascending key order: the same sequence of pairs that iter() yields.
C14_IntoIterIsIter ==
    Returned =>
        /\ into_iter(root) = iter(root)
        /\ strictly_ascending(first_of(into_iter(root)))
        /\ pairs(into_iter(root)) = {<<k, hist[k]>> : k \in present}


\* C15: when an insert or remove call panics part-way through, the tree
\* observable afterwards (root, len(), the result of get for every key) is
\* the tree as it was before the call.
C15_FaultLeavesTreeIntact ==
    [][(fault = "none" /\ fault' = "panic" /\ last'.op \in {"insert", "remove"}) =>
        /\ root' = root
        /\ len(size') = len(size)
        /\ \A k \in Keys : get(root', k) = get(root, k)]_vars


\* the accessors of a returned collection: iter_mut() pairs them with keys
slots_of_iter_mut(rt) == {iter_mut(rt)[i][2] : i \in 1..Len(iter_mut(rt))}

slots_of_values_mut(rt) == {values_mut(rt)[i] : i \in 1..Len(values_mut(rt))}

\* the positions of the full traversal at which two trees differ
changed(rt1, rt2) ==
    {j \in 1..Len(traverse(rt1)) : traverse(rt1)[j] # traverse(rt2)[j]}

\* C16: iter_mut() and values_mut() return exactly len() accessors, one per
\* stored value, no two for the same (leaf, index) slot; a write through one
\* of them changes exactly the targeted value, the new value is what get
\* returns for its key, and keys, len() and the tree structure stay as they
\* were.
C16_MutableAccessors ==
    [][(last'.op \in {"iter_mut", "values_mut"}) =>
        /\ last'.ret = len(size)
        /\ last'.ret = Len(traverse(root))
        /\ Len(iter_mut(root)) = Len(values_mut(root))
        /\ Cardinality(slots_of_iter_mut(root)) = Len(iter_mut(root))
        /\ Cardinality(slots_of_values_mut(root)) = Len(values_mut(root))
        /\ get(root', last'.key) = last'.value
        /\ Cardinality(changed(root, root')) <= 1
        /\ first_of(traverse(root')) = first_of(traverse(root))
        /\ len(size') = len(size)
        /\ slots_of_values_mut(root') = slots_of_values_mut(root)]_vars


\* C17: entry(k).or_insert(d) leaves the existing value and len() unchanged
\* when k is in the map (its most recent mutating call stored a value), and
\* inserts (k, d) with len() growing by exactly 1 when k is absent; in both
\* cases the returned accessor targets the value that get(k) returns
\* afterwards: it reads that value, and a write through it is what get(k)
\* returns next.
C17_EntryOrInsert ==
    [][(last'.op = "or_insert") =>
        /\ fault' = "none"
        /\ IF hist[last'.key] # NoneVal
           THEN get(root', last'.key) = hist[last'.key] /\ len(size') = len(size)
           ELSE get(root', last'.key) = last'.value /\ len(size') = len(size) + 1
        /\ last'.ret = get(root', last'.key)
        /\ \A w \in Vals :
               get(write_slot(root', last'.args[1], last'.args[2], w), last'.key) = w]_vars


\* C18: clone() produces a map with the same len() and the same get result for
\* every key as the original, and a later insert or remove on either map does
\* not change the other.
C18_CloneAgrees ==
    [][/\ (last'.op = "clone") =>
            /\ other'.fault = "none"
            /\ len(other'.size) = len(size)
            /\ \A k \in Keys : get(other'.root, k) = get(root, k)
       /\ (last'.op \in {"insert", "remove"}) => other' = other
       /\ (last'.op \in {"clone.insert", "clone.remove"}) =>
            root' = root /\ size' = size]_vars

\* every node of the tree below (and including) node
RECURSIVE nodes_of(_)
nodes_of(node) ==
    IF node.kind = "Branch"
    THEN {node} \cup UNION {nodes_of(node.children[i]) : i \in 1..Len(node.children)}
    ELSE IF node.kind = "Leaf" THEN {node}
    ELSE {}

\* C19: for a tree built from with_branching_factor(B) by insert and remove
\* calls, immediately after every completed insert each node (leaf or branch)
\* holds at least 1 and at most B keys.
C19_NodeKeyBounds ==
    InsertReturned =>
        \A n \in nodes_of(root) : Len(n.keys) >= 1 /\ Len(n.keys) <= branching_factor

\* C20: every Branch has at least one child and exactly |keys| + 1 children,
\* and every Leaf has |values| = |keys|; in particular no insert or remove
\* returns a tree containing a branch with zero children.
C20_BranchShape ==
    \A n \in nodes_of(root) :
        /\ n.kind = "Branch" =>
              Len(n.children) >= 1 /\ Len(n.children) = Len(n.keys) + 1
        /\ n.kind = "Leaf" => Len(n.values) = Len(n.keys)


\* the keys stored in the leaves of the subtree node
RECURSIVE subtree_keys(_)
subtree_keys(node) ==
    IF node.kind = "Branch"
    THEN UNION {subtree_keys(node.children[i]) : i \in 1..Len(node.children)}
    ELSE {node.keys[i] : i \in 1..Len(node.keys)}

\* child i (counted from 1) of branch b holds only keys of [k_{i-1}, k_i)
child_in_range(b, i) ==
    \A k \in subtree_keys(b.children[i]) :
        /\ (i > 1 /\ i - 1 <= Len(b.keys)) => k >= b.keys[i - 1]
        /\ i <= Len(b.keys) => k < b.keys[i]

\* C21: for every Branch with separators k_0 < ... < k_{m-1} and children
\* c_0..c_m, every key stored in the subtree c_i is >= k_{i-1} and < k_i (no
\* lower bound for c_0, no upper bound for c_m).
C21_SeparatorRanges ==
    \A n \in nodes_of(root) :
        n.kind = "Branch" => \A i \in 1..Len(n.children) : child_in_range(n, i)

\* C22: the keys of every leaf and the separators of every branch are
\* strictly ascending, with no duplicate inside a node.
C22_NodeKeysAscending ==
    \A n \in nodes_of(root) : strictly_ascending(n.keys)


\* the depths at which the leaves of the subtree node lie, node being at depth d
RECURSIVE leaf_depths(_, _)
leaf_depths(node, d) ==
    IF node.kind = "Branch"
    THEN UNION {leaf_depths(node.children[i], d + 1) : i \in 1..Len(node.children)}
    ELSE IF node.kind = "Leaf" THEN {d}
    ELSE {}

child_kinds(b) == {b.children[i].kind : i \in 1..Len(b.children)}

\* C23: after any sequence of insert calls (overwrites included) on a tree
\* from with_branching_factor(B) the tree is balanced: all leaves are at the
\* same depth, so no branch has both a Leaf and a Branch among its children.
C23_InsertKeepsBalance ==
    Returned =>
        /\ Cardinality(leaf_depths(root, 0)) <= 1
        /\ \A n \in nodes_of(root) :
               n.kind = "Branch" => Cardinality(child_kinds(n)) <= 1


\* the branches of a tree: every leaf replaced by an empty leaf
RECURSIVE skeleton(_)
skeleton(node) ==
    IF node.kind = "Branch"
    THEN Branch(node.keys, [i \in 1..Len(node.children) |-> skeleton(node.children[i])])
    ELSE IF node.kind = "Leaf" THEN create_empty_leaf
    ELSE NoneNode

\* the leaves of a tree, left to right
RECURSIVE leaves_of(_)
RECURSIVE leaves_of_children(_, _)
leaves_of_children(children, i) ==
    IF i > Len(children) THEN <<>>
    ELSE leaves_of(children[i]) \o leaves_of_children(children, i + 1)

leaves_of(node) ==
    IF node.kind = "Branch" THEN leaves_of_children(node.children, 1)
    ELSE IF node.kind = "Leaf" THEN <<node>>
    ELSE <<>>

\* rt2 is rt1 with the entry (key, value) put into one leaf and nothing else
\* changed
only_leaf_entry_changed(rt1, rt2, key, value) ==
    /\ skeleton(rt2) = skeleton(rt1)
    /\ Cardinality({j \in 1..Len(leaves_of(rt1)) : leaves_of(rt2)[j] # leaves_of(rt1)[j]}) <= 1
    /\ \A j \in 1..Len(leaves_of(rt1)) :
           leaves_of(rt2)[j] # leaves_of(rt1)[j] =>
               /\ pairs(accept_node(leaves_of(rt2)[j])) \ pairs(accept_node(leaves_of(rt1)[j]))
                      = {<<key, value>>}
               /\ subtree_keys(leaves_of(rt2)[j]) = subtree_keys(leaves_of(rt1)[j]) \cup {key}

\* the leaf that holds key, or would receive it, has room for one more key
leaf_has_room(rt, key, bf) ==
    rt.kind # "None" /\ Len(find_leaf_for_key(rt, key).keys) < bf

\* C24: an insert(k, v) that overwrites the value of a key already in the map,
\* or that adds a key to a leaf without overflowing it, changes no branch's key
\* list and no branch's children list: the only change to the tree is that one
\* leaf's entry.
C24_InsertInLeafOnly ==
    [][(/\ last'.op = "insert"
        /\ fault' = "none"
        /\ contains_key(root, last'.key) \/ leaf_has_room(root, last'.key, branching_factor))
       => only_leaf_entry_changed(root, root', last'.key, last'.value)]_vars


\* the number of separators held by the branches of the subtree node
RECURSIVE separator_count(_)
RECURSIVE separator_count_children(_, _)
separator_count_children(children, i) ==
    IF i > Len(children) THEN 0
    ELSE separator_count(children[i]) + separator_count_children(children, i + 1)

separator_count(node) ==
    IF node.kind = "Branch"
    THEN Len(node.keys) + separator_count_children(node.children, 1)
    ELSE 0

\* the call removes the only entry of a leaf below a branch
empties_leaf(rt, key) ==
    /\ rt.kind = "Branch"
    /\ find_leaf_for_key(rt, key).keys = <<key>>

NoEmptyLeaf == \A n \in nodes_of(root) : n.kind = "Leaf" => Len(n.keys) >= 1

\* C25: after any completed insert or remove the tree contains no Leaf with
\* zero keys: a leaf emptied by remove is dropped from its parent together
\* with an adjoining separator (the tree has fewer leaves and fewer separators
\* afterwards), and the empty-leaf placeholders used during descent never
\* remain in the tree.
C25_NoEmptyLeaf ==
    /\ [](Returned => NoEmptyLeaf)
    /\ [][(last'.op = "remove" /\ fault' = "none" /\ empties_leaf(root, last'.key)) =>
            /\ Len(leaves_of(root')) < Len(leaves_of(root))
            /\ separator_count(root') < separator_count(root)]_vars


\* C26: a remove that deletes the last entry of a Leaf root makes the tree
\* empty (root_kind() = Empty); once root_kind() = Branch it remains Branch
\* after every subsequent remove that returns: a root branch reduced to a
\* single child, or to none, is never collapsed.
C26_RootKindUnderRemove ==
    [][(last'.op = "remove" /\ fault' = "none") =>
        /\ (root.kind = "Leaf" /\ root.keys = <<last'.key>>) => root_kind(root') = "Empty"
        /\ root_kind(root) = "Branch" => root_kind(root') = "Branch"]_vars

\* a remove has returned leaving a root branch without any child
C26_Witness ==
    /\ RemoveReturned
    /\ last.ret # NoneVal
    /\ root_kind(root) = "Branch"
    /\ Len(root.children) = 0


\* the recorded result is the split of the leaf node at mid = floor(n / 2)
leaf_split_at_middle(node) ==
    /\ ret_tag = "Split"
    /\ ret_left = Leaf(SubSeq(node.keys, 1, Len(node.keys) \div 2),
                       SubSeq(node.values, 1, Len(node.keys) \div 2))
    /\ ret_right = Leaf(SubSeq(node.keys, Len(node.keys) \div 2 + 1, Len(node.keys)),
                        SubSeq(node.values, Len(node.keys) \div 2 + 1, Len(node.keys)))
    /\ Len(ret_left.keys) >= 1
    /\ Len(ret_right.keys) >= 1
    /\ ret_separator = ret_right.keys[1]
    /\ ret_left.keys \o ret_right.keys = node.keys
    /\ ret_left.values \o ret_right.values = node.values

\* C27: leaf split policy: a leaf with n <= B keys is returned unchanged
\* (NoSplit); for n > B the result is left = the first floor(n/2) entries,
\* right = the remaining entries, separator = right's first key, so that
\* left ++ right is the original entry sequence and both halves are non-empty.
C27_LeafSplitPolicy ==
    last.op = "LeafNodeSplitter::split" =>
        IF Len(last.args[1].keys) <= last.args[2]
        THEN ret_tag = "NoChange" /\ ret_node = last.args[1]
        ELSE leaf_split_at_middle(last.args[1])

\* a leaf of five keys has been split with B = 4
C27_Witness ==
    /\ last.op = "LeafNodeSplitter::split"
    /\ Len(last.args[1].keys) = 5
    /\ last.args[2] = 4
    /\ ret_tag = "Split"
    /\ Len(ret_left.keys) = 2
    /\ Len(ret_right.keys) = 3

\* the recorded result is the split of the branch node at mid = floor(n / 2)
branch_split_at_middle(node) ==
    /\ ret_tag = "Split"
    /\ ret_separator = node.keys[Len(node.keys) \div 2 + 1]
    /\ ret_left = Branch(SubSeq(node.keys, 1, Len(node.keys) \div 2),
                         SubSeq(node.children, 1, Len(node.keys) \div 2 + 1))
    /\ ret_right = Branch(SubSeq(node.keys, Len(node.keys) \div 2 + 2, Len(node.keys)),
                          SubSeq(node.children, Len(node.keys) \div 2 + 2, Len(node.children)))
    /\ \A i \in 1..Len(ret_left.keys) : ret_left.keys[i] # ret_separator
    /\ \A i \in 1..Len(ret_right.keys) : ret_right.keys[i] # ret_separator
    /\ Len(ret_left.children) = Len(ret_left.keys) + 1
    /\ Len(ret_right.children) = Len(ret_right.keys) + 1
    /\ ret_left.keys \o <<ret_separator>> \o ret_right.keys = node.keys
    /\ ret_left.children \o ret_right.children = node.children

\* C28: branch split policy: for a branch with n > B keys and n + 1 children,
\* with mid = floor(n/2), the result is separator = keys[mid], left =
\* keys[0..mid] with children[0..mid+1], right = keys[mid+1..] with
\* children[mid+1..]; the separator appears in neither half, both halves have
\* |children| = |keys| + 1, and left.keys ++ [separator] ++ right.keys is the
\* original key sequence.
C28_BranchSplitPolicy ==
    (/\ last.op = "BranchNodeSplitter::split"
     /\ Len(last.args[1].keys) > last.args[2]
     /\ Len(last.args[1].children) = Len(last.args[1].keys) + 1)
    => branch_split_at_middle(last.args[1])

\* a branch of five keys and six children has been split with B = 3
C28_Witness ==
    /\ last.op = "BranchNodeSplitter::split"
    /\ Len(last.args[1].keys) = 5
    /\ Len(last.args[1].children) = 6
    /\ last.args[2] = 3
    /\ ret_tag = "Split"
    /\ Len(ret_left.children) = 3
    /\ Len(ret_right.children) = 3


\* C29: for both leaf and branch sibling pairs, needs_merge(left, right) is
\* true exactly when left or right holds fewer than min_keys = floor(B/2) keys.
C29_NeedsMerge ==
    last.op \in {"LeafNodeMerger::needs_merge", "BranchNodeMerger::needs_merge"} =>
        (last.ret[1] <=> \/ Len(last.args[1].keys) < last.args[3] \div 2
                         \/ Len(last.args[2].keys) < last.args[3] \div 2)

\* needs_merge of the merger for the kind of the pair
needs_merge(left, right, min_keys) ==
    IF left.kind = "Leaf" THEN LeafNodeMerger_needs_merge(left, right, min_keys)
    ELSE BranchNodeMerger_needs_merge(left, right, min_keys)

\* total = |left| + |right| for leaves, + 1 for the separator for branches
total_keys_of(left, right) ==
    Len(left.keys) + Len(right.keys) + (IF left.kind = "Branch" THEN 1 ELSE 0)

\* C30: RemovalBalancer.balance_nodes on a same-kind sibling pair for which
\* needs_merge holds returns Rebalanced (both nodes kept) whenever
\* total >= 2 * min_keys and Merged (a single node) only when
\* total < 2 * min_keys.
C30_MergeOrRebalance ==
    (/\ last.op = "RemovalBalancer::balance_nodes"
     /\ needs_merge(last.args[1], last.args[2], last.args[4] \div 2))
    => IF total_keys_of(last.args[1], last.args[2]) >= 2 * (last.args[4] \div 2)
       THEN ret_tag = "Rebalanced"
       ELSE ret_tag = "Merged"

\* a balance_nodes call that redistributed: the pair needed a merge and both
\* nodes came back
redistributed ==
    /\ last.op = "RemovalBalancer::balance_nodes"
    /\ needs_merge(last.args[1], last.args[2], last.args[4] \div 2)
    /\ ret_tag = "Rebalanced"

\* the keys the right node is left with: the rest of total, less the
\* separator for branches
rest_of(left, right) ==
    total_keys_of(left, right) - (total_keys_of(left, right) \div 2)
        - (IF left.kind = "Branch" THEN 1 ELSE 0)

\* C31: after a redistribution of a leaf pair or a branch pair, the left node
\* holds exactly floor(total/2) keys and the right node holds the rest;
\* neither node is destroyed, and for leaves the returned separator is the
\* right leaf's first key.
C31_Redistribution ==
    redistributed =>
        /\ ret_left.kind = last.args[1].kind
        /\ ret_right.kind = last.args[2].kind
        /\ Len(ret_left.keys) = total_keys_of(last.args[1], last.args[2]) \div 2
        /\ Len(ret_right.keys) = rest_of(last.args[1], last.args[2])
        /\ (last.args[1].kind = "Leaf" => ret_separator = ret_right.keys[1])
\* the nodes a balance_nodes result hands back to the parent
balanced_nodes(b) ==
    IF b.tag = "Merged" THEN {b.node}
    ELSE IF b.tag = "Rebalanced" THEN {b.left, b.right}
    ELSE {}

\* the pair (left neighbour, modified child) after the balancing at branch,
\* r the result of the removal below child idx; empty when the child had no
\* left neighbour or was dropped
pair_at(branch, idx, r, min_keys) ==
    IF r.panic \/ r.node.kind = "None" \/ idx = 0 \/ idx - 1 >= Len(branch.keys)
    THEN {}
    ELSE balanced_nodes(balance_nodes(branch.children[idx], r.node,
                                      branch.keys[idx], min_keys))

RECURSIVE balanced_on_path(_, _, _)
\* the Branch arm of balanced_on_path, idx the child the key routes to
balanced_below(branch, key, idx, min_keys) ==
    IF idx >= Len(branch.children) THEN {}
    ELSE pair_at(branch, idx,
                 remove_recursive(branch.children[idx + 1], key, min_keys), min_keys)
         \cup balanced_on_path(branch.children[idx + 1], key, min_keys)

\* the balanced pairs of every branch on the removal path of key
balanced_on_path(node, key, min_keys) ==
    IF node.kind # "Branch" THEN {}
    ELSE balanced_below(node, key, route_idx(node.keys, key), min_keys)

\* C32: after a remove completes, at every branch on the removal path where
\* the modified child had a left neighbour, both members of the pair (left
\* neighbour, modified child) that remain in the tree, or the single node
\* they were merged into, hold at least min_keys = floor(B/2) keys.
C32_BalancedPairMinKeys ==
    [][RemoveReturned' =>
          \A n \in balanced_on_path(root, last'.key, min_keys_of(branching_factor)) :
              n \in nodes_of(root') => Len(n.keys) >= min_keys_of(branching_factor)]_vars
\* left's entries followed by right's, the separator between the key runs of
\* two branches
joined(left, right, sep) ==
    IF left.kind = "Leaf"
    THEN Leaf(left.keys \o right.keys, left.values \o right.values)
    ELSE Branch(left.keys \o <<sep>> \o right.keys, left.children \o right.children)

\* branch after the removal below child idx gave r and res: when the child
\* was put back beside a left neighbour and the branch lost a child, the
\* pair was merged
merged_in_parent(branch, idx, r, res) ==
    (/\ ~r.panic /\ ~res.panic
     /\ r.node.kind # "None"
     /\ idx > 0
     /\ Len(res.node.children) = Len(branch.children) - 1)
    => /\ res.node.keys = VecRemove(branch.keys, idx - 1)
       /\ res.node.children =
              SubSeq(branch.children, 1, idx - 1)
                  \o <<joined(branch.children[idx], r.node, branch.keys[idx])>>
                  \o SubSeq(branch.children, idx + 2, Len(branch.children))

RECURSIVE merges_on_path(_, _, _)
\* the Branch arm of merges_on_path, idx the child the key routes to
merges_below(branch, key, idx, min_keys) ==
    idx < Len(branch.children) =>
        /\ merged_in_parent(branch, idx,
                            remove_recursive(branch.children[idx + 1], key, min_keys),
                            remove_recursive(branch, key, min_keys))
        /\ merges_on_path(branch.children[idx + 1], key, min_keys)

\* every merge on the removal path of key is the concatenation of the pair,
\* put in the left child's place
merges_on_path(node, key, min_keys) ==
    node.kind = "Branch" => merges_below(node, key, route_idx(node.keys, key), min_keys)

merged_at(branch, idx, r, min_keys) ==
    IF r.panic \/ r.node.kind = "None" \/ idx = 0 \/ idx - 1 >= Len(branch.keys)
    THEN {}
    ELSE {n \in balanced_nodes(balance_nodes(branch.children[idx], r.node,
                                             branch.keys[idx], min_keys)) :
              balance_nodes(branch.children[idx], r.node,
                            branch.keys[idx], min_keys).tag = "Merged"}

RECURSIVE merged_on_path(_, _, _)
\* the Branch arm of merged_on_path, idx the child the key routes to
merged_below(branch, key, idx, min_keys) ==
    IF idx >= Len(branch.children) THEN {}
    ELSE merged_at(branch, idx,
                   remove_recursive(branch.children[idx + 1], key, min_keys), min_keys)
         \cup merged_on_path(branch.children[idx + 1], key, min_keys)

\* the nodes made by a merge on the removal path of key
merged_on_path(node, key, min_keys) ==
    IF node.kind # "Branch" THEN {}
    ELSE merged_below(node, key, route_idx(node.keys, key), min_keys)

\* C34: a merge performed during remove never produces a node holding more
\* than branching_factor keys, for every B >= 2.
C34_MergeWithinCapacity ==
    [][RemoveReturned' =>
          \A n \in merged_on_path(root, last'.key, min_keys_of(branching_factor)) :
              Len(n.keys) <= branching_factor]_vars
\* the last n elements of s
tail_of(s, n) == SubSeq(s, Len(s) - n + 1, Len(s))

\* the branch's children and keys once the child below idx has been put back
\* (r.node) or, having become empty, dropped with an adjoining separator
children_after(branch, idx, r) ==
    IF r.node.kind # "None" THEN [branch.children EXCEPT ![idx + 1] = r.node]
    ELSE VecRemove(branch.children, idx)

keys_after(branch, idx, r) ==
    IF r.node.kind # "None" THEN branch.keys
    ELSE IF idx > 0 THEN VecRemove(branch.keys, idx - 1)
    ELSE IF Len(branch.keys) # 0 THEN VecRemove(branch.keys, 0)
    ELSE branch.keys

\* node is Branch(keys1, children1) but for a merge or a redistribution of
\* the children at idx - 1 and idx: the children before idx - 1 and after idx
\* and the separators other than keys1[idx - 1] are the same, and with
\* idx = 0, or no child at idx, nothing differs
only_pair_balanced(keys1, children1, idx, node) ==
    IF idx = 0 \/ idx >= Len(children1)
    THEN node = Branch(keys1, children1)
    ELSE /\ Len(node.children) \in {Len(children1), Len(children1) - 1}
         /\ SubSeq(node.children, 1, idx - 1) = SubSeq(children1, 1, idx - 1)
         /\ tail_of(node.children, Len(children1) - idx - 1)
                = SubSeq(children1, idx + 2, Len(children1))
         /\ SubSeq(node.keys, 1, idx - 1) = SubSeq(keys1, 1, idx - 1)
         /\ tail_of(node.keys, Len(keys1) - idx) = SubSeq(keys1, idx + 1, Len(keys1))

\* the branch made of branch by the removal (res), r the result below child
\* idx: only the pair (idx - 1, idx) of the children the key was routed
\* among may differ, the next sibling at idx + 1 is as it was
routed_pair_only(branch, idx, r, res) ==
    (~r.panic /\ ~res.panic) =>
        IF idx = 0
        THEN res.node = Branch(keys_after(branch, idx, r), children_after(branch, idx, r))
        ELSE /\ SubSeq(res.node.children, 1, idx - 1) = SubSeq(branch.children, 1, idx - 1)
             /\ tail_of(res.node.children, Len(branch.children) - idx - 1)
                    = SubSeq(branch.children, idx + 2, Len(branch.children))

\* the same with the pair (idx - 1, idx) taken among the children after the
\* child was put back or dropped
updated_pair_only(branch, idx, r, res) ==
    (~r.panic /\ ~res.panic) =>
        only_pair_balanced(keys_after(branch, idx, r), children_after(branch, idx, r),
                           idx, res.node)

RECURSIVE routed_pairs_on_path(_, _, _)
routed_pairs_below(branch, key, idx, min_keys) ==
    idx < Len(branch.children) =>
        /\ routed_pair_only(branch, idx,
                            remove_recursive(branch.children[idx + 1], key, min_keys),
                            remove_recursive(branch, key, min_keys))
        /\ routed_pairs_on_path(branch.children[idx + 1], key, min_keys)

routed_pairs_on_path(node, key, min_keys) ==
    node.kind = "Branch" =>
        routed_pairs_below(node, key, route_idx(node.keys, key), min_keys)

RECURSIVE updated_pairs_on_path(_, _, _)
updated_pairs_below(branch, key, idx, min_keys) ==
    idx < Len(branch.children) =>
        /\ updated_pair_only(branch, idx,
                             remove_recursive(branch.children[idx + 1], key, min_keys),
                             remove_recursive(branch, key, min_keys))
        /\ updated_pairs_on_path(branch.children[idx + 1], key, min_keys)

updated_pairs_on_path(node, key, min_keys) ==
    node.kind = "Branch" =>
        updated_pairs_below(node, key, route_idx(node.keys, key), min_keys)

C36_GetAgreesWithIter ==
    Returned => \A k \in Keys, v \in Vals : get(root, k) = v <=> <<k, v>> \in pairs(iter(root))
\* C37: for a tree created with with_branching_factor(B >= 2), no sequence of
\* insert, get, remove and traversal calls triggers a fault: no out-of-bounds
\* child index, no unwrap on an empty key list, and none of the explicit
\* panics is reachable.
C37_NoFault == constructed => fault # "panic"
\* a balance_nodes call on a leaf pair that needed no merge
leaves_left_alone ==
    /\ last.op = "RemovalBalancer::balance_nodes"
    /\ last.args[1].kind = "Leaf"
    /\ ~LeafNodeMerger_needs_merge(last.args[1], last.args[2], last.args[4] \div 2)

\* C38: RemovalBalancer.balance_nodes on a leaf pair for which needs_merge is
\* false returns both leaves unchanged, with the separator recomputed as the
\* right leaf's first key.
C38_SeparatorRecomputed ==
    leaves_left_alone =>
        /\ ret_tag = "Rebalanced"
        /\ ret_left = last.args[1]
        /\ ret_right = last.args[2]
        /\ ret_separator = last.args[2].keys[1]

\* C38 (amended): balance_nodes on a leaf pair for which needs_merge is false
\* returns both leaves unchanged, with the separator it was given.
C38_SeparatorKept ==
    leaves_left_alone =>
        /\ ret_tag = "Rebalanced"
        /\ ret_left = last.args[1]
        /\ ret_right = last.args[2]
        /\ ret_separator = last.args[3]

\* balance_nodes has returned a leaf pair that needed no merge, called with a
\* separator other than the right leaf's first key
C38_Witness ==
    /\ leaves_left_alone
    /\ last.args[3] # last.args[2].keys[1]
    /\ Len(last.args[1].keys) = 3
    /\ ret_tag = "Rebalanced"
\* |children| == |keys| + 1
well_formed(branch) == Len(branch.children) = Len(branch.keys) + 1

\* a balance_nodes call on two well-formed branches that needed a merge and
\* did not come back as one node
branches_redistributed ==
    /\ last.op = "RemovalBalancer::balance_nodes"
    /\ last.args[1].kind = "Branch"
    /\ well_formed(last.args[1])
    /\ well_formed(last.args[2])
    /\ BranchNodeMerger_needs_merge(last.args[1], last.args[2], last.args[4] \div 2)
    /\ ret_tag # "Merged"

\* C39: branch redistribution of two well-formed siblings (each with
\* |children| == |keys| + 1) preserves the in-order key sequence left.keys ++
\* [separator] ++ right.keys and the child sequence left.children ++
\* right.children, and both resulting branches again satisfy |children| ==
\* |keys| + 1.
C39_BranchRedistribution ==
    branches_redistributed =>
        /\ ret_tag = "Rebalanced"
        /\ ret_left.keys \o <<ret_separator>> \o ret_right.keys
               = last.args[1].keys \o <<last.args[3]>> \o last.args[2].keys
        /\ ret_left.children \o ret_right.children
               = last.args[1].children \o last.args[2].children
        /\ well_formed(ret_left)
        /\ well_formed(ret_right)

\* a left branch of three keys has given keys and children to a right branch
\* without keys
C39_Witness ==
    /\ branches_redistributed
    /\ Len(last.args[1].keys) = 3
    /\ Len(last.args[2].keys) = 0
    /\ Len(ret_right.children) > 1
====
